---- MODULE Spec2Model ----
(***************************************************************************)
(* Travel tracker: the Streamlit logging app (app.py) and the batch        *)
(* importer (import_data.py), both working on flights.csv and hotels.csv.  *)
(*                                                                         *)
(* Conventions of the model                                                *)
(*  - latitudes and longitudes are integers, in 1/10000 of a degree;       *)
(*  - a CSV file is [exists, header, rows]: rows holds the text of each    *)
(*    cell as to_csv wrote it (numeric cells are kept as integers, which   *)
(*    stand for their decimal text);                                       *)
(*  - NaN and NoneVal are the in-memory float nan and Python None; no      *)
(*    text a user or an export can supply equals either of them;           *)
(*  - a free-text description is a sequence of one-character strings, so   *)
(*    that upper-casing and substring search are computed, not assumed.    *)
(***************************************************************************)
EXTENDS Integers, Sequences, FiniteSets, TLC

VARIABLES
    flights,      \* flights.csv
    hotels,       \* hotels.csv
    hotel_found,  \* st.session_state['hotel_found']
    ui,           \* the message the last app handler showed (st.success / st.error)
    searched,     \* history: the geocoder's answer to the session's latest search
    pc,           \* importer: position in main()
    flightData,   \* importer: flightData.txt
    marriottData, \* importer: marriottData.txt
    geoPlan,      \* importer: what the geocoder will answer, call by call
    idx,          \* importer: index of the next edge in process_hotels' loop
    acc,          \* importer: the list `hotels` being built
    clock,        \* importer: seconds slept so far
    geoTimes,     \* importer: the clock at each geocoder call
    stdout        \* importer: what was printed

appVars == <<flights, hotels, hotel_found, ui, searched>>
batchVars == <<pc, flightData, marriottData, geoPlan, idx, acc, clock, geoTimes, stdout>>
vars == <<flights, hotels, hotel_found, ui, searched, pc, flightData, marriottData, geoPlan,
          idx, acc, clock, geoTimes, stdout>>

-----------------------------------------------------------------------------
(* Bounds of the model *)

MaxRows == 2
MaxCards == 2
MaxEdges == 2

-----------------------------------------------------------------------------
(* Values *)

NaN == "<nan>"
NoneVal == "<None>"

\* Python truthiness of a str-or-None value.
Truthy(v) == v # NoneVal /\ v # ""

\* a or b
Or(a, b) == IF Truthy(a) THEN a ELSE b

\* str.upper() on the codes the model types in.
upper(s) ==
    CASE s = "jfk" -> "JFK"
      [] s = "lax" -> "LAX"
      [] OTHER -> s

AIRPORT_DB ==
    "DFW" :> <<328998, -970403>> @@ "LGA" :> <<407769, -738740>> @@ "JFK" :> <<406413, -737781>> @@
    "LHR" :> <<514700, -4543>> @@ "ORD" :> <<419742, -879073>> @@ "LAX" :> <<339416, -1184085>> @@
    "MIA" :> <<257959, -802870>> @@ "DCA" :> <<388512, -770377>> @@ "SFO" :> <<376213, -1223790>> @@
    "ATL" :> <<336407, -844277>> @@ "DEN" :> <<398561, -1046737>> @@ "SEA" :> <<474502, -1223088>> @@
    "DAL" :> <<328471, -968517>> @@ "STL" :> <<387487, -903700>> @@ "CLT" :> <<352140, -809431>> @@
    "PHX" :> <<334343, -1120116>> @@ "HEL" :> <<603172, 249633>> @@ "AMS" :> <<523081, 47661>> @@
    "EWR" :> <<406895, -741745>>

AirportIndex ==
    "DFW" :> 1 @@ "LGA" :> 2 @@ "JFK" :> 3 @@ "LHR" :> 4 @@ "ORD" :> 5 @@ "LAX" :> 6 @@
    "MIA" :> 7 @@ "DCA" :> 8 @@ "SFO" :> 9 @@ "ATL" :> 10 @@ "DEN" :> 11 @@ "SEA" :> 12 @@
    "DAL" :> 13 @@ "STL" :> 14 @@ "CLT" :> 15 @@ "PHX" :> 16 @@ "HEL" :> 17 @@ "AMS" :> 18 @@
    "EWR" :> 19

GEODESIC_MILES ==
    <<1,2>> :> 1388 @@ <<1,3>> :> 1391 @@ <<1,4>> :> 4750 @@ <<1,5>> :> 801 @@ <<1,6>> :> 1234 @@
    <<1,7>> :> 1121 @@ <<1,8>> :> 1191 @@ <<1,9>> :> 1464 @@ <<1,10>> :> 731 @@ <<1,11>> :> 640 @@
    <<1,12>> :> 1659 @@ <<1,13>> :> 11 @@ <<1,14>> :> 550 @@ <<1,15>> :> 936 @@ <<1,16>> :> 867 @@
    <<1,17>> :> 5224 @@ <<1,18>> :> 4920 @@ <<1,19>> :> 1371 @@ <<2,3>> :> 10 @@ <<2,4>> :> 3449 @@
    <<2,5>> :> 733 @@ <<2,6>> :> 2469 @@ <<2,7>> :> 1096 @@ <<2,8>> :> 214 @@ <<2,9>> :> 2579 @@
    <<2,10>> :> 761 @@ <<2,11>> :> 1619 @@ <<2,12>> :> 2412 @@ <<2,13>> :> 1381 @@ <<2,14>> :> 888 @@
    <<2,15>> :> 543 @@ <<2,16>> :> 2148 @@ <<2,17>> :> 4111 @@ <<2,18>> :> 3640 @@ <<2,19>> :> 16 @@
    <<3,4>> :> 3451 @@ <<3,5>> :> 740 @@ <<3,6>> :> 2474 @@ <<3,7>> :> 1089 @@ <<3,8>> :> 213 @@
    <<3,9>> :> 2586 @@ <<3,10>> :> 759 @@ <<3,11>> :> 1625 @@ <<3,12>> :> 2421 @@ <<3,13>> :> 1383 @@
    <<3,14>> :> 892 @@ <<3,15>> :> 541 @@ <<3,16>> :> 2153 @@ <<3,17>> :> 4116 @@ <<3,18>> :> 3643 @@
    <<3,19>> :> 21 @@ <<4,5>> :> 3953 @@ <<4,6>> :> 5456 @@ <<4,7>> :> 4424 @@ <<4,8>> :> 3664 @@
    <<4,9>> :> 5367 @@ <<4,10>> :> 4210 @@ <<4,11>> :> 4671 @@ <<4,12>> :> 4800 @@ <<4,13>> :> 4745 @@
    <<4,14>> :> 4200 @@ <<4,15>> :> 3992 @@ <<4,16>> :> 5271 @@ <<4,17>> :> 1151 @@ <<4,18>> :> 230 @@
    <<4,19>> :> 3465 @@ <<5,6>> :> 1744 @@ <<5,7>> :> 1196 @@ <<5,8>> :> 611 @@ <<5,9>> :> 1846 @@
    <<5,10>> :> 605 @@ <<5,11>> :> 888 @@ <<5,12>> :> 1720 @@ <<5,13>> :> 797 @@ <<5,14>> :> 257 @@
    <<5,15>> :> 599 @@ <<5,16>> :> 1439 @@ <<5,17>> :> 4436 @@ <<5,18>> :> 4120 @@ <<5,19>> :> 719 @@
    <<6,7>> :> 2342 @@ <<6,8>> :> 2310 @@ <<6,9>> :> 337 @@ <<6,10>> :> 1946 @@ <<6,11>> :> 861 @@
    <<6,12>> :> 954 @@ <<6,13>> :> 1246 @@ <<6,14>> :> 1592 @@ <<6,15>> :> 2125 @@ <<6,16>> :> 370 @@
    <<6,17>> :> 5614 @@ <<6,18>> :> 5578 @@ <<6,19>> :> 2453 @@ <<7,8>> :> 919 @@ <<7,9>> :> 2585 @@
    <<7,10>> :> 594 @@ <<7,11>> :> 1708 @@ <<7,12>> :> 2724 @@ <<7,13>> :> 1109 @@ <<7,14>> :> 1068 @@
    <<7,15>> :> 649 @@ <<7,16>> :> 1971 @@ <<7,17>> :> 5183 @@ <<7,18>> :> 4632 @@ <<7,19>> :> 1084 @@
    <<8,9>> :> 2442 @@ <<8,10>> :> 546 @@ <<8,11>> :> 1475 @@ <<8,12>> :> 2328 @@ <<8,13>> :> 1183 @@
    <<8,14>> :> 719 @@ <<8,15>> :> 330 @@ <<8,16>> :> 1978 @@ <<8,17>> :> 4316 @@ <<8,18>> :> 3854 @@
    <<8,19>> :> 198 @@ <<9,10>> :> 2139 @@ <<9,11>> :> 967 @@ <<9,12>> :> 678 @@ <<9,13>> :> 1475 @@
    <<9,14>> :> 1735 @@ <<9,15>> :> 2296 @@ <<9,16>> :> 651 @@ <<9,17>> :> 5435 @@ <<9,18>> :> 5473 @@
    <<9,19>> :> 2565 @@ <<10,11>> :> 1199 @@ <<10,12>> :> 2181 @@ <<10,13>> :> 721 @@ <<10,14>> :> 483 @@
    <<10,15>> :> 226 @@ <<10,16>> :> 1587 @@ <<10,17>> :> 4837 @@ <<10,18>> :> 4400 @@ <<10,19>> :> 745 @@
    <<11,12>> :> 1024 @@ <<11,13>> :> 650 @@ <<11,14>> :> 769 @@ <<11,15>> :> 1337 @@ <<11,16>> :> 601 @@
    <<11,17>> :> 4966 @@ <<11,18>> :> 4811 @@ <<11,19>> :> 1604 @@ <<12,13>> :> 1669 @@ <<12,14>> :> 1709 @@
    <<12,15>> :> 2279 @@ <<12,16>> :> 1106 @@ <<12,17>> :> 4782 @@ <<12,18>> :> 4886 @@ <<12,19>> :> 2401 @@
    <<13,14>> :> 545 @@ <<13,15>> :> 926 @@ <<13,16>> :> 879 @@ <<13,17>> :> 5222 @@ <<13,18>> :> 4916 @@
    <<13,19>> :> 1364 @@ <<14,15>> :> 575 @@ <<14,16>> :> 1261 @@ <<14,17>> :> 4694 @@ <<14,18>> :> 4370 @@
    <<14,19>> :> 871 @@ <<15,16>> :> 1773 @@ <<15,17>> :> 4643 @@ <<15,18>> :> 4184 @@ <<15,19>> :> 528 @@
    <<16,17>> :> 5529 @@ <<16,18>> :> 5409 @@ <<16,19>> :> 2132 @@ <<17,18>> :> 947 @@ <<17,19>> :> 4125 @@
    <<18,19>> :> 3656

\* geopy.distance.geodesic(start, end).miles truncated by int(): tabulated for
\* the reference coordinates (WGS-84 ellipsoid, 1 mile = 1609.344 m).
IntGeodesicMiles(o, d) ==
    LET i == AirportIndex[o]
        j == AirportIndex[d]
    IN  IF i = j THEN 0
        ELSE IF i < j THEN GEODESIC_MILES[<<i, j>>] ELSE GEODESIC_MILES[<<j, i>>]

InAirportDB(code) == code \in DOMAIN AIRPORT_DB

calculate_distance(origin_code, dest_code) ==
    IF InAirportDB(origin_code) /\ InAirportDB(dest_code)
    THEN IntGeodesicMiles(origin_code, dest_code)
    ELSE 0

-----------------------------------------------------------------------------
(* CSV files: pandas to_csv / read_csv *)

\* The strings read_csv turns into NaN (pandas' default na_values).
NA_VALUES ==
    {"", "#N/A", "#N/A N/A", "#NA", "-1.#IND", "-1.#QNAN", "-NaN", "-nan",
     "1.#IND", "1.#QNAN", "<NA>", "N/A", "NA", "NULL", "NaN", "n/a", "nan", "null"}

\* One text cell, as DataFrame.to_csv writes it: nan and None become the empty field.
to_csv_cell(v) == IF v = NaN \/ v = NoneVal THEN "" ELSE v

\* One text cell, as pd.read_csv returns it.
read_csv_cell(t) == IF t \in NA_VALUES THEN NaN ELSE t

\* A numeric cell that may be nan (Nights): nan is written as the empty field and
\* read back as nan.
IntCell(n) == [nan |-> FALSE, n |-> n]
NanCell == [nan |-> TRUE, n |-> 0]

FlightRowToCsv(r) ==
    [r EXCEPT !.Date = to_csv_cell(@), !.Airline = to_csv_cell(@),
              !.Origin = to_csv_cell(@), !.Destination = to_csv_cell(@)]

FlightRowFromCsv(r) ==
    [r EXCEPT !.Date = read_csv_cell(@), !.Airline = read_csv_cell(@),
              !.Origin = read_csv_cell(@), !.Destination = read_csv_cell(@)]

HotelRowToCsv(r) ==
    [r EXCEPT !.Date = to_csv_cell(@), !.Name = to_csv_cell(@),
              !.City = to_csv_cell(@), !.Address = to_csv_cell(@)]

HotelRowFromCsv(r) ==
    [r EXCEPT !.Date = read_csv_cell(@), !.Name = read_csv_cell(@),
              !.City = read_csv_cell(@), !.Address = read_csv_cell(@)]

\* The rows of a table go through the conversion of their own columns.
RowToCsv(table, r) == IF table = "flights" THEN FlightRowToCsv(r) ELSE HotelRowToCsv(r)
RowFromCsv(table, r) == IF table = "flights" THEN FlightRowFromCsv(r) ELSE HotelRowFromCsv(r)

AbsentFile == [exists |-> FALSE, header |-> FALSE, rows |-> <<>>]

\* df.to_csv(file, index=False). A DataFrame with no columns (pd.DataFrame([]))
\* writes a file with no header line.
to_csv(df, hasColumns, table) ==
    [exists |-> TRUE, header |-> hasColumns,
     rows |-> [i \in 1..Len(df) |-> RowToCsv(table, df[i])]]

\* pd.read_csv(file): FileNotFoundError for an absent file, EmptyDataError for a
\* file with no header line.
read_csv(file, table) ==
    IF ~file.exists THEN [raised |-> "FileNotFoundError", df |-> <<>>]
    ELSE IF ~file.header THEN [raised |-> "EmptyDataError", df |-> <<>>]
    ELSE [raised |-> "",
          df |-> [i \in 1..Len(file.rows) |-> RowFromCsv(table, file.rows[i])]]

\* load_data: only FileNotFoundError is caught.
load_data(file, table) ==
    LET r == read_csv(file, table)
    IN  IF r.raised = "FileNotFoundError" THEN [raised |-> "", df |-> <<>>] ELSE r

save_data(df, table) == to_csv(df, TRUE, table)

-----------------------------------------------------------------------------
(* app.py *)

\* Lines 51-52 run on every script run, before any handler: an exception there
\* ends the run and no button handler is reached.
ScriptReachesTabs ==
    /\ load_data(flights, "flights").raised = ""
    /\ load_data(hotels, "hotels").raised = ""

FormDates == {"2025-03-01"}
FormAirlines == {"Delta"}
TypedOrigins == {"jfk", "XXX"}
TypedDestinations == {"JFK", "lax", "XXX"}
FormMiles == {0, 100}

MsgUnknownAirport == "Unknown Airport Code."
MsgAdded == "Added"
MsgChangesSaved == "Changes saved!"
MsgFound == "Found"
MsgNotFound == "Location not found."
MsgGeoError == "Error"
MsgHotelSaved == "Hotel Saved!"

new_row(f_date, f_air, f_org, f_dst, f_miles) ==
    [Date |-> f_date, Airline |-> f_air, Origin |-> f_org, Destination |-> f_dst,
     Miles |-> IF f_miles = 0 THEN calculate_distance(f_org, f_dst) ELSE f_miles,
     Origin_Lat |-> AIRPORT_DB[f_org][1], Origin_Lon |-> AIRPORT_DB[f_org][2],
     Dest_Lat |-> AIRPORT_DB[f_dst][1], Dest_Lon |-> AIRPORT_DB[f_dst][2]]

\* Save Flight without the test of line 187: an unknown code is saved with zero
\* coordinates, the way the importer fills them.
SaveFlight_Unvalidated(f_date, f_air, org_text, dst_text, f_miles) ==
    LET f_org == upper(org_text)
        f_dst == upper(dst_text)
        df_curr == load_data(flights, "flights").df
        known == InAirportDB(f_org) /\ InAirportDB(f_dst)
    IN  /\ ScriptReachesTabs
        /\ Len(df_curr) < MaxRows
        /\ flights' = save_data(
               Append(df_curr,
                      IF known THEN new_row(f_date, f_air, f_org, f_dst, f_miles)
                      ELSE [Date |-> f_date, Airline |-> f_air, Origin |-> f_org,
                            Destination |-> f_dst, Miles |-> f_miles,
                            Origin_Lat |-> 0, Origin_Lon |-> 0,
                            Dest_Lat |-> 0, Dest_Lon |-> 0]),
               "flights")
        /\ ui' = MsgAdded
        /\ UNCHANGED <<hotels, hotel_found, searched>>
        /\ UNCHANGED batchVars

\* The "Save Flight" button.
SaveFlight(f_date, f_air, org_text, dst_text, f_miles) ==
    LET f_org == upper(org_text)
        f_dst == upper(dst_text)
        df_curr == load_data(flights, "flights").df
    IN  /\ ScriptReachesTabs
        /\ IF InAirportDB(f_org) /\ InAirportDB(f_dst)
           THEN /\ Len(df_curr) < MaxRows
                /\ flights' = save_data(
                       Append(df_curr, new_row(f_date, f_air, f_org, f_dst, f_miles)),
                       "flights")
                /\ ui' = MsgAdded
           ELSE /\ flights' = flights
                /\ ui' = MsgUnknownAirport
        /\ UNCHANGED <<hotels, hotel_found, searched>>
        /\ UNCHANGED batchVars

\* What the user can do to the grid st.data_editor shows (num_rows="dynamic"):
\* leave it, delete a row, change a cell.
FlightGridEdits(df) ==
    {df}
    \cup {SubSeq(df, 1, k - 1) \o SubSeq(df, k + 1, Len(df)) : k \in 1..Len(df)}
    \cup {[df EXCEPT ![k].Miles = 100] : k \in 1..Len(df)}

\* The "Save Flight Changes" button of "Manage Flights".
SaveFlightChanges ==
    LET df_editor == load_data(flights, "flights").df
    IN  /\ ScriptReachesTabs
        /\ df_editor # <<>>
        /\ \E edited_df \in FlightGridEdits(df_editor) :
               flights' = save_data(edited_df, "flights")
        /\ ui' = MsgChangesSaved
        /\ UNCHANGED <<hotels, hotel_found, searched>>
        /\ UNCHANGED batchVars

\* geopy Location objects the geocoder can return: latitude, longitude, address
\* and raw['address'] (a key that is missing holds NoneVal).
NoRaw == [hotel |-> NoneVal, tourism |-> NoneVal, city |-> NoneVal,
          town |-> NoneVal, village |-> NoneVal, county |-> NoneVal]

NoLocation ==
    [found |-> FALSE, latitude |-> 0, longitude |-> 0, address |-> "", raw |-> NoRaw]

LocClayton ==
    [found |-> TRUE, latitude |-> 386500, longitude |-> -903400,
     address |-> "Le Meridien, Clayton, Missouri",
     raw |-> [NoRaw EXCEPT !.hotel = "Le Meridien", !.city = "Clayton"]]

LocTown ==
    [found |-> TRUE, latitude |-> 445000, longitude |-> -731200,
     address |-> "Inn at Stowe, Stowe, Vermont",
     raw |-> [NoRaw EXCEPT !.town = "Stowe"]]

\* address.split(',')[0]
FirstSegment(address) ==
    CASE address = LocClayton.address -> "Le Meridien"
      [] address = LocTown.address -> "Inn at Stowe"
      [] OTHER -> address

\* dict.get(key, default)
Get(v, default) == IF v = NoneVal THEN default ELSE v

\* Lines 238-246: the values the hotel form is pre-filled with.
default_name(found) ==
    IF found.found
    THEN Get(found.raw.hotel, Get(found.raw.tourism, FirstSegment(found.address)))
    ELSE ""

default_city(found) ==
    IF found.found
    THEN Get(found.raw.city, Get(found.raw.town, Get(found.raw.village,
             Get(found.raw.county, ""))))
    ELSE ""

default_addr(found) == IF found.found THEN found.address ELSE ""

SearchQueries == {"", "Le Meridien Clayton"}
AppGeocoderAnswers == {"match:Clayton", "none", "raise"}

GeocoderLocation(answer) ==
    CASE answer = "match:Clayton" -> LocClayton
      [] answer = "match:Town" -> LocTown
      [] OTHER -> NoLocation

IsMatch(answer) == answer \in {"match:Clayton", "match:Town"}

\* What a search leaves in st.session_state['hotel_found'].
session_after_search(old_found, answer) ==
    IF IsMatch(answer) THEN GeocoderLocation(answer) ELSE old_found

\* The "Search Location" button.
SearchLocation(search_query, answer) ==
    /\ ScriptReachesTabs
    /\ IF search_query # ""
       THEN /\ hotel_found' = session_after_search(hotel_found, answer)
            /\ searched' = answer
            /\ ui' = CASE IsMatch(answer) -> MsgFound
                       [] answer = "none" -> MsgNotFound
                       [] OTHER -> MsgGeoError
       ELSE /\ hotel_found' = hotel_found
            /\ searched' = searched
            /\ ui' = ""
    /\ UNCHANGED <<flights, hotels>>
    /\ UNCHANGED batchVars

TypedAddresses == {"N/A"}
FormNights == {1}

new_hotel(found, h_date, h_name, h_city, h_addr, h_nights) ==
    [Date |-> h_date, Name |-> h_name, City |-> h_city, Address |-> h_addr,
     Nights |-> IntCell(h_nights),
     Lat |-> IF found.found THEN found.latitude ELSE 0,
     Lon |-> IF found.found THEN found.longitude ELSE 0]

\* The "Log Hotel" button of the form.
LogHotel(h_date, h_name, h_city, h_addr, h_nights) ==
    LET df_h == load_data(hotels, "hotels").df
    IN  /\ ScriptReachesTabs
        /\ Len(df_h) < MaxRows
        /\ hotels' = save_data(
               Append(df_h, new_hotel(hotel_found, h_date, h_name, h_city, h_addr, h_nights)),
               "hotels")
        /\ ui' = MsgHotelSaved
        /\ UNCHANGED <<flights, hotel_found, searched>>
        /\ UNCHANGED batchVars

HotelGridEdits(df) ==
    {df}
    \cup {SubSeq(df, 1, k - 1) \o SubSeq(df, k + 1, Len(df)) : k \in 1..Len(df)}

\* The "Save Hotel Changes" button of "Manage Hotels".
SaveHotelChanges ==
    LET df_h_editor == load_data(hotels, "hotels").df
    IN  /\ ScriptReachesTabs
        /\ df_h_editor # <<>>
        /\ \E edited_h_df \in HotelGridEdits(df_h_editor) :
               hotels' = save_data(edited_h_df, "hotels")
        /\ ui' = MsgChangesSaved
        /\ UNCHANGED <<flights, hotel_found, searched>>
        /\ UNCHANGED batchVars

-----------------------------------------------------------------------------
(* import_data.py *)

LowerLetters == <<"a","b","c","d","e","f","g","h","i","j","k","l","m",
                  "n","o","p","q","r","s","t","u","v","w","x","y","z">>
UpperLetters == <<"A","B","C","D","E","F","G","H","I","J","K","L","M",
                  "N","O","P","Q","R","S","T","U","V","W","X","Y","Z">>

UpperChar(c) ==
    IF \E i \in 1..Len(LowerLetters) : LowerLetters[i] = c
    THEN UpperLetters[CHOOSE i \in 1..Len(LowerLetters) : LowerLetters[i] = c]
    ELSE c

\* str.upper() on a description.
UpperText(t) == [i \in 1..Len(t) |-> UpperChar(t[i])]

\* needle in hay
Contains(hay, needle) ==
    \E i \in 1..(Len(hay) - Len(needle) + 1) :
        SubSeq(hay, i, i + Len(needle) - 1) = needle

REFUND == <<"R","E","F","U","N","D">>

\* pd.to_datetime on the date strings of the model: the calendar day (ISO text
\* and days since 1970-01-01) of a string it can parse.
DATE_TABLE ==
    "2025-02-27" :> [iso |-> "2025-02-27", day |-> 20146] @@
    "2025-03-01" :> [iso |-> "2025-03-01", day |-> 20148] @@
    "2025-03-03" :> [iso |-> "2025-03-03", day |-> 20150] @@
    "2025-03-05" :> [iso |-> "2025-03-05", day |-> 20152] @@
    "2025-03-01T08:30:00" :> [iso |-> "2025-03-01", day |-> 20148] @@
    "03/05/2025" :> [iso |-> "2025-03-05", day |-> 20152]

\* pd.to_datetime(v): NaT for None, a Timestamp for a string it can parse, an
\* exception for any other string.
to_datetime(v) ==
    IF v = NoneVal THEN [raised |-> FALSE, nat |-> TRUE, iso |-> "NaT", day |-> 0]
    ELSE IF v \in DOMAIN DATE_TABLE
         THEN [raised |-> FALSE, nat |-> FALSE,
               iso |-> DATE_TABLE[v].iso, day |-> DATE_TABLE[v].day]
         ELSE [raised |-> TRUE, nat |-> FALSE, iso |-> "", day |-> 0]

\* Lines 42-45: the filter on a card.
card_accepted(card) ==
    /\ card.activityType \in {"Airline", "Award Issuance"}
    /\ ~Contains(UpperText(card.transactionDescription), REFUND)

card_date_str(card) == Or(card.travelDate, card.activityDate)
card_origin(card) == upper(Or(Or(card.flightOrigin, card.origin), ""))
card_dest(card) == upper(Or(Or(card.flightDestination, card.destination), ""))

\* Line 50.
card_complete(card) ==
    /\ Truthy(card_date_str(card))
    /\ card_origin(card) # ""
    /\ card_dest(card) # ""
    /\ card_origin(card) # card_dest(card)

\* Lines 52-70: the dict appended for a card that passed both tests.
flight_dict(card) ==
    LET origin == card_origin(card)
        dest == card_dest(card)
        known == InAirportDB(origin) /\ InAirportDB(dest)
    IN  [Date |-> to_datetime(card_date_str(card)).iso,
         Airline |-> "American Airlines",
         Origin |-> origin,
         Destination |-> dest,
         Miles |-> IF known THEN IntGeodesicMiles(origin, dest) ELSE 0,
         Origin_Lat |-> IF known THEN AIRPORT_DB[origin][1] ELSE 0,
         Origin_Lon |-> IF known THEN AIRPORT_DB[origin][2] ELSE 0,
         Dest_Lat |-> IF known THEN AIRPORT_DB[dest][1] ELSE 0,
         Dest_Lon |-> IF known THEN AIRPORT_DB[dest][2] ELSE 0]

\* Lines 37-70: the loop over the cards; pd.to_datetime at line 63 may raise,
\* and nothing catches it.
RECURSIVE flights_loop(_, _)
flights_loop(cards, done) ==
    IF cards = <<>> THEN [raised |-> "", flights |-> done]
    ELSE LET card == Head(cards)
         IN  IF card_accepted(card) /\ card_complete(card)
             THEN IF to_datetime(card_date_str(card)).raised
                  THEN [raised |-> "DateParseError", flights |-> done]
                  ELSE flights_loop(Tail(cards), Append(done, flight_dict(card)))
             ELSE flights_loop(Tail(cards), done)

\* DataFrame.drop_duplicates(): the first of every group of equal rows is kept.
RECURSIVE drop_duplicates(_)
drop_duplicates(df) ==
    IF df = <<>> THEN <<>>
    ELSE LET init == drop_duplicates(SubSeq(df, 1, Len(df) - 1))
             last == df[Len(df)]
         IN  IF \E i \in 1..Len(init) : init[i] = last THEN init ELSE Append(init, last)

Line(text, n) == [text |-> text, n |-> n]

\* The input files: absent, not JSON, or a JSON object.
MissingInput == [kind |-> "missing", hasKey |-> FALSE, items |-> <<>>]
InvalidInput == [kind |-> "invalid", hasKey |-> FALSE, items |-> <<>>]
JsonInput(hasKey, items) == [kind |-> "json", hasKey |-> hasKey, items |-> items]

\* process_flights(): the file it leaves, what it prints, the exception that
\* escapes it ("" when it returns).
process_flights(data, oldFile) ==
    LET banner == <<Line("--- Processing Flights ---", 0)>>
    IN  IF data.kind = "missing"
        THEN [file |-> oldFile, raised |-> "",
              out |-> Append(banner, Line("Error: flightData.txt not found.", 0))]
        ELSE IF data.kind = "invalid"
        THEN [file |-> oldFile, raised |-> "JSONDecodeError", out |-> banner]
        ELSE LET loop == flights_loop(IF data.hasKey THEN data.items ELSE <<>>, <<>>)
                 df == drop_duplicates(loop.flights)
             IN  IF loop.raised # ""
                 THEN [file |-> oldFile, raised |-> loop.raised, out |-> banner]
                 ELSE [file |-> to_csv(df, df # <<>>, "flights"), raised |-> "",
                       out |-> Append(banner, Line("Success: Saved flights", Len(df)))]

\* Lines 96-100: the name of a stay.
node_name(node) == IF node.hasProps THEN node.propName ELSE node.description

\* Lines 103-108: pd.to_datetime(None) is NaT and raises nothing, and the days
\* of a NaT difference are nan; only an exception gives 1.
node_nights(node) ==
    LET s == to_datetime(node.startDate)
        e == to_datetime(node.endDate)
    IN  IF s.raised \/ e.raised THEN IntCell(1)
        ELSE IF s.nat \/ e.nat THEN NanCell
        ELSE IntCell(e.day - s.day)

\* Lines 111-132: the dict appended for a STAY node, given the geocoder's answer
\* to geolocator.geocode(name, addressdetails=True).
hotel_dict(node, answer) ==
    LET name == node_name(node)
        location == GeocoderLocation(answer)
    IN  [Date |-> node.startDate,
         Name |-> name,
         City |-> IF IsMatch(answer)
                  THEN Get(location.raw.city, Get(location.raw.town,
                           Get(location.raw.village, "Unknown")))
                  ELSE "Unknown",
         Address |-> IF IsMatch(answer) THEN location.address ELSE name,
         Nights |-> node_nights(node),
         Lat |-> IF IsMatch(answer) THEN location.latitude ELSE 0,
         Lon |-> IF IsMatch(answer) THEN location.longitude ELSE 0]

\* One pass of the loop without the try/except of lines 113-123 and the default
\* of line 111: a stay the geocoder does not resolve gets no record.
edge_records_ResolvedOnly(node, answer) ==
    IF node.code = "STAY" /\ IsMatch(answer) THEN <<hotel_dict(node, answer)>> ELSE <<>>

\* Lines 89-132, one pass of the loop: what the edge adds to `hotels`.
edge_records(node, answer) ==
    IF node.code = "STAY" THEN <<hotel_dict(node, answer)>> ELSE <<>>

\* Line 121: time.sleep(1) is inside `if location:`.
SLEEP_SECONDS == 1
seconds_slept(answer) == IF IsMatch(answer) THEN SLEEP_SECONDS ELSE 0

RECURSIVE hotels_loop(_, _)
hotels_loop(edges, plan) ==
    IF edges = <<>> THEN <<>>
    ELSE edge_records(Head(edges), Head(plan)) \o hotels_loop(Tail(edges), Tail(plan))

\* process_hotels(), given the geocoder's answer for every edge.
process_hotels(data, plan, oldFile) ==
    LET banner == <<Line("--- Processing Hotels ---", 0)>>
    IN  IF data.kind = "missing"
        THEN [file |-> oldFile, raised |-> "",
              out |-> Append(banner, Line("Error: marriottData.txt not found.", 0))]
        ELSE IF data.kind = "invalid"
        THEN [file |-> oldFile, raised |-> "JSONDecodeError", out |-> banner]
        ELSE LET df == hotels_loop(IF data.hasKey THEN data.items ELSE <<>>, plan)
             IN  [file |-> to_csv(df, df # <<>>, "hotels"), raised |-> "",
                  out |-> Append(banner, Line("Success: Saved hotel stays", Len(df)))]

Traceback(exception) == Line(exception, 0)

-----------------------------------------------------------------------------
(* The batch run, step by step: main() of import_data.py *)

Edges == IF marriottData.hasKey THEN marriottData.items ELSE <<>>

\* process_flights() as a whole: it talks to nothing but its two files.
FlightsStage ==
    LET r == process_flights(flightData, flights)
    IN  /\ pc = "flights"
        /\ flights' = r.file
        /\ stdout' = IF r.raised = "" THEN stdout \o r.out
                     ELSE Append(stdout \o r.out, Traceback(r.raised))
        /\ pc' = IF r.raised = "" THEN "hotels" ELSE "crashed"
        /\ UNCHANGED <<hotels, hotel_found, ui, searched, flightData, marriottData, geoPlan,
                       idx, acc, clock, geoTimes>>

\* process_hotels() up to the loop: lines 78-88.
HotelsOpen ==
    /\ pc = "hotels"
    /\ \/ /\ marriottData.kind = "missing"
          /\ stdout' = stdout \o <<Line("--- Processing Hotels ---", 0),
                                   Line("Error: marriottData.txt not found.", 0)>>
          /\ pc' = "done"
          /\ UNCHANGED idx
       \/ /\ marriottData.kind = "invalid"
          /\ stdout' = stdout \o <<Line("--- Processing Hotels ---", 0),
                                   Traceback("JSONDecodeError")>>
          /\ pc' = "crashed"
          /\ UNCHANGED idx
       \/ /\ marriottData.kind = "json"
          /\ stdout' = Append(stdout, Line("--- Processing Hotels ---", 0))
          /\ pc' = "loop"
          /\ idx' = 1
    /\ UNCHANGED <<flights, hotels, hotel_found, ui, searched, flightData, marriottData,
                   geoPlan, acc, clock, geoTimes>>

\* One pass of the loop of lines 89-132: the geocoder is called for a STAY node
\* only, and answers geoPlan[idx].
HotelsEdge ==
    /\ pc = "loop"
    /\ idx <= Len(Edges)
    /\ LET node == Edges[idx]
           answer == geoPlan[idx]
       IN  /\ acc' = acc \o edge_records(node, answer)
           /\ IF node.code = "STAY"
              THEN /\ geoTimes' = Append(geoTimes, clock)
                   /\ clock' = clock + seconds_slept(answer)
              ELSE UNCHANGED <<geoTimes, clock>>
    /\ idx' = idx + 1
    /\ UNCHANGED <<flights, hotels, hotel_found, ui, searched, pc, flightData, marriottData,
                   geoPlan, stdout>>

\* Lines 134-136.
HotelsWrite ==
    /\ pc = "loop"
    /\ idx > Len(Edges)
    /\ hotels' = to_csv(acc, acc # <<>>, "hotels")
    /\ stdout' = Append(stdout, Line("Success: Saved hotel stays", Len(acc)))
    /\ pc' = "done"
    /\ UNCHANGED <<flights, hotel_found, ui, searched, flightData, marriottData, geoPlan,
                   idx, acc, clock, geoTimes>>

-----------------------------------------------------------------------------
(* Inputs of the importer *)

TxtFlight == <<"F","l","i","g","h","t">>
TxtRefundUpper == <<"F","l","i","g","h","t"," ","C","r","e","d","i","t"," ",
                    "R","E","F","U","N","D">>
TxtRefundMixed == <<"R","e","f","u","n","d"," ","f","e","e">>

BaseCard ==
    [activityType |-> "Airline", transactionDescription |-> TxtFlight,
     activityDate |-> "2025-03-05", origin |-> "JFK", destination |-> "LAX",
     travelDate |-> NoneVal, flightOrigin |-> NoneVal, flightDestination |-> NoneVal]

\* A card whose only date is a string pd.to_datetime cannot parse.
UndatedCard == [BaseCard EXCEPT !.activityDate = "TBD"]

\* The cards of the model: the base card with its classification, its dates or
\* its airports varied.
CardDomain ==
    {[BaseCard EXCEPT !.activityType = t, !.transactionDescription = d] :
        t \in {"Airline", "Award Issuance", "Hotel", NoneVal},
        d \in {TxtFlight, TxtRefundUpper, TxtRefundMixed, <<>>}}
    \cup
    {[BaseCard EXCEPT !.travelDate = td, !.activityDate = ad] :
        td \in {NoneVal, "", "2025-03-01T08:30:00", "TBD"},
        ad \in {NoneVal, "2025-03-05", "03/05/2025"}}
    \cup
    {[BaseCard EXCEPT !.flightOrigin = fo, !.origin = o,
                      !.flightDestination = fd, !.destination = d] :
        fo \in {NoneVal, "lax", "DFW"}, o \in {NoneVal, "JFK", ""},
        fd \in {NoneVal, "JFK"}, d \in {NoneVal, "LAX", "XXX"}}

SeqsUpTo(S, n) == UNION {[1..k -> S] : k \in 0..n}

StayNode ==
    [code |-> "STAY", startDate |-> "2025-03-01", endDate |-> "2025-03-03",
     hasProps |-> TRUE, propName |-> "Le Meridien Clayton", description |-> NoneVal]

\* <<startDate, endDate>> of the stays of the model.
DatePairs ==
    {<<"2025-03-01", "2025-03-03">>, <<"2025-03-01", "2025-03-01">>,
     <<"2025-03-03", "2025-02-27">>, <<NoneVal, "2025-03-03">>,
     <<"soon", "2025-03-03">>}

NodeDomain ==
    {[StayNode EXCEPT !.startDate = p[1], !.endDate = p[2]] : p \in DatePairs}
    \cup {[StayNode EXCEPT !.hasProps = FALSE, !.propName = NoneVal,
                           !.description = "Stay at Inn at Stowe"]}
    \cup {[StayNode EXCEPT !.code = "POINTS"]}

BatchGeocoderAnswers == {"match:Clayton", "match:Town", "none", "raise"}

\* An edge with the geocoder's answer for it (no call is made for a node that
\* is not a STAY).
EdgeChoices ==
    {e \in [node : NodeDomain, answer : BatchGeocoderAnswers] :
        e.node.code # "STAY" => e.answer = "none"}

\* The tables a batch run finds: one row each, saved by the app.
OldFlightsFile ==
    save_data(<<new_row("2025-03-01", "Delta", "JFK", "LAX", 0)>>, "flights")

OldHotelsFile ==
    save_data(<<new_hotel(NoLocation, "2025-03-01", "", "", "N/A", 1)>>, "hotels")

-----------------------------------------------------------------------------
(* Spec: the app, with whole runs of the importer between its handlers *)

SmallFlightInputs ==
    {MissingInput, InvalidInput, JsonInput(TRUE, <<>>), JsonInput(TRUE, <<BaseCard>>)}

SmallHotelInputs ==
    {[data |-> MissingInput, plan |-> <<>>],
     [data |-> JsonInput(TRUE, <<>>), plan |-> <<>>],
     [data |-> JsonInput(TRUE, <<StayNode>>), plan |-> <<"none">>]}

\* python import_data.py: process_flights() then process_hotels(); an exception
\* that escapes the first ends the run.
RunImport(fdata, hdata, plan) ==
    LET r1 == process_flights(fdata, flights)
        r2 == process_hotels(hdata, plan, hotels)
    IN  /\ flights' = r1.file
        /\ hotels' = IF r1.raised = "" THEN r2.file ELSE hotels
        /\ UNCHANGED <<hotel_found, ui, searched>>
        /\ UNCHANGED batchVars

IdleBatch ==
    /\ pc = "idle"
    /\ flightData = MissingInput
    /\ marriottData = MissingInput
    /\ geoPlan = <<>>
    /\ idx = 0
    /\ acc = <<>>
    /\ clock = 0
    /\ geoTimes = <<>>
    /\ stdout = <<>>

Init ==
    /\ flights = AbsentFile
    /\ hotels = AbsentFile
    /\ hotel_found = NoLocation
    /\ ui = ""
    /\ searched = "never"
    /\ IdleBatch

Next ==
    \/ \E d \in FormDates, a \in FormAirlines, o \in TypedOrigins,
          t \in TypedDestinations, m \in FormMiles : SaveFlight(d, a, o, t, m)
    \/ SaveFlightChanges
    \/ \E q \in SearchQueries, ans \in AppGeocoderAnswers : SearchLocation(q, ans)
    \/ \E d \in FormDates,
          n \in {default_name(hotel_found)},
          c \in {default_city(hotel_found)},
          ad \in TypedAddresses \cup {default_addr(hotel_found)},
          k \in FormNights : LogHotel(d, n, c, ad, k)
    \/ SaveHotelChanges
    \/ \E f \in SmallFlightInputs, h \in SmallHotelInputs : RunImport(f, h.data, h.plan)

Spec == Init /\ [][Next]_vars

-----------------------------------------------------------------------------
(* SpecFlights: process_flights() on every short list of cards *)

InitFlights ==
    /\ flights = OldFlightsFile
    /\ hotels = OldHotelsFile
    /\ hotel_found = NoLocation
    /\ ui = ""
    /\ searched = "never"
    /\ pc = "flights"
    /\ flightData \in {JsonInput(TRUE, cards) : cards \in SeqsUpTo(CardDomain, MaxCards)}
    /\ marriottData = MissingInput
    /\ geoPlan = <<>>
    /\ idx = 0
    /\ acc = <<>>
    /\ clock = 0
    /\ geoTimes = <<>>
    /\ stdout = <<>>

NextFlights == FlightsStage

SpecFlights == InitFlights /\ [][NextFlights]_vars

-----------------------------------------------------------------------------
(* SpecBatch: one run of main(), the geocoder answering call by call *)

BatchFlightInputs ==
    {MissingInput, InvalidInput, JsonInput(TRUE, <<BaseCard>>),
     JsonInput(TRUE, <<UndatedCard>>)}

InitBatch ==
    /\ flights = OldFlightsFile
    /\ hotels = OldHotelsFile
    /\ hotel_found = NoLocation
    /\ ui = ""
    /\ searched = "never"
    /\ pc = "flights"
    /\ flightData \in BatchFlightInputs
    /\ \/ /\ marriottData \in {MissingInput, InvalidInput, JsonInput(FALSE, <<>>)}
          /\ geoPlan = <<>>
       \/ \E es \in SeqsUpTo(EdgeChoices, MaxEdges) :
              /\ marriottData = JsonInput(TRUE, [i \in 1..Len(es) |-> es[i].node])
              /\ geoPlan = [i \in 1..Len(es) |-> es[i].answer]
    /\ idx = 0
    /\ acc = <<>>
    /\ clock = 0
    /\ geoTimes = <<>>
    /\ stdout = <<>>

NextBatch == FlightsStage \/ HotelsOpen \/ HotelsEdge \/ HotelsWrite

SpecBatch == InitBatch /\ [][NextBatch]_vars

-----------------------------------------------------------------------------
(* Properties *)

FlightFormInputs ==
    [date : FormDates, airline : FormAirlines, origin : TypedOrigins,
     destination : TypedDestinations, miles : FormMiles]

SaveFlightStep(i) == SaveFlight(i.date, i.airline, i.origin, i.destination, i.miles)

CodesResolve(i) == InAirportDB(upper(i.origin)) /\ InAirportDB(upper(i.destination))

\* C1: a Save Flight submission whose Origin or Destination is not a key of the
\* Airport Reference Table shows the error and leaves flights.csv (and
\* hotels.csv) exactly as it was: no row added or changed, no file created,
\* whatever the other fields are, a non-zero Miles included.
C1_RejectedSubmissionWritesNothing ==
    [][\A i \in FlightFormInputs :
          (SaveFlightStep(i) /\ ~CodesResolve(i))
              => (ui' = MsgUnknownAirport /\ flights' = flights /\ hotels' = hotels)]_vars

\* A rejection has just been shown while flights.csv holds a row.
C1_Witness ==
    /\ ui = MsgUnknownAirport
    /\ flights.exists
    /\ Len(flights.rows) = 1

HotelFormInputs ==
    [date : FormDates,
     name : {default_name(NoLocation), default_name(LocClayton)},
     city : {default_city(NoLocation), default_city(LocClayton)},
     address : TypedAddresses \cup {default_addr(NoLocation), default_addr(LocClayton)},
     nights : FormNights]

LogHotelStep(h) == LogHotel(h.date, h.name, h.city, h.address, h.nights)

ImportStep == \E f \in SmallFlightInputs, h \in SmallHotelInputs : RunImport(f, h.data, h.plan)

Last(s) == s[Len(s)]

\* C2: every accepted manual append (Save Flight with known codes, Log Hotel)
\* leaves the stored table equal to the rows stored before, in their order and
\* with their field values, followed by exactly the one new row; and reloading
\* a table that was absent or empty before the append gives exactly the record
\* that was submitted.
C2_AppendKeepsStoredRows ==
    [][/\ \A i \in FlightFormInputs :
              (SaveFlightStep(i) /\ CodesResolve(i)) =>
                  LET row == new_row(i.date, i.airline, upper(i.origin),
                                     upper(i.destination), i.miles)
                  IN  /\ flights'.rows = Append(flights.rows, FlightRowToCsv(row))
                      /\ flights.rows = <<>> =>
                             load_data(flights', "flights").df = <<row>>
       /\ \A h \in HotelFormInputs :
              LogHotelStep(h) =>
                  LET row == new_hotel(hotel_found, h.date, h.name, h.city,
                                       h.address, h.nights)
                  IN  /\ hotels'.rows = Append(hotels.rows, HotelRowToCsv(row))
                      /\ (hotels.rows = <<>> /\ h.name # "" /\ h.city # "" /\ h.address # "")
                             => load_data(hotels', "hotels").df = <<row>>]_vars

\* A row of the old table is still a row of the new one (two rows that read_csv
\* reads alike are the same record).
FlightRecordsKept(old, new) ==
    \A k \in 1..Len(old.rows) : \E j \in 1..Len(new.rows) :
        FlightRowFromCsv(new.rows[j]) = FlightRowFromCsv(old.rows[k])

HotelRecordsKept(old, new) ==
    \A k \in 1..Len(old.rows) : \E j \in 1..Len(new.rows) :
        HotelRowFromCsv(new.rows[j]) = HotelRowFromCsv(old.rows[k])

\* C3: a stored flight or hotel record stays in its table until a grid save
\* removes it: no Save Flight, no Log Hotel and no run of the importer deletes
\* a record that was stored before the step.
C3_OnlyGridSaveRemovesRecords ==
    [][((\E i \in FlightFormInputs : SaveFlightStep(i))
           \/ (\E h \in HotelFormInputs : LogHotelStep(h))
           \/ ImportStep)
          => (FlightRecordsKept(flights, flights') /\ HotelRecordsKept(hotels, hotels'))]_vars

\* C6: every flight record written by the Save Flight form or by
\* process_flights has Origin different from Destination (what a grid save
\* writes is not constrained).
C6_WrittenFlightsLeaveTheirOrigin ==
    [][/\ \A i \in FlightFormInputs :
              (SaveFlightStep(i) /\ ui' = MsgAdded) =>
                  Last(flights'.rows).Origin # Last(flights'.rows).Destination
       /\ \A f \in SmallFlightInputs :
              (f.kind = "json" /\ \E h \in SmallHotelInputs : RunImport(f, h.data, h.plan)) =>
                  \A k \in 1..Len(flights'.rows) :
                      flights'.rows[k].Origin # flights'.rows[k].Destination]_vars

\* C10: the Lat/Lon a Log Hotel submission saves are those of the location the
\* session's most recent search resolved; when that search resolved nothing
\* (no match, or the service failed), or no search was made, they are 0.0 and
\* Name, City and Address are the text of the form.
C10_SavedLocationIsLatestSearch ==
    [][\A h \in HotelFormInputs :
          LogHotelStep(h) =>
              LET saved == Last(hotels'.rows)
              IN  IF IsMatch(searched)
                  THEN /\ saved.Lat = GeocoderLocation(searched).latitude
                       /\ saved.Lon = GeocoderLocation(searched).longitude
                  ELSE /\ saved.Lat = 0
                       /\ saved.Lon = 0
                       /\ saved.Name = to_csv_cell(h.name)
                       /\ saved.City = to_csv_cell(h.city)
                       /\ saved.Address = to_csv_cell(h.address)]_vars

\* The claim's conditions on a card, and the row it calls canonical.
CardQualifies(card) ==
    /\ card.activityType = "Airline" \/ card.activityType = "Award Issuance"
    /\ ~Contains(UpperText(card.transactionDescription), REFUND)
    /\ Truthy(card.travelDate) \/ Truthy(card.activityDate)
    /\ Truthy(card.flightOrigin) \/ Truthy(card.origin)
    /\ Truthy(card.flightDestination) \/ Truthy(card.destination)
    /\ upper(IF Truthy(card.flightOrigin) THEN card.flightOrigin ELSE card.origin)
         # upper(IF Truthy(card.flightDestination) THEN card.flightDestination
                 ELSE card.destination)

CanonicalRow(card) == FlightRowToCsv(flight_dict(card))

Range(s) == {s[i] : i \in 1..Len(s)}

RECURSIVE StayIndices(_)
StayIndices(n) ==
    IF n = 0 THEN <<>>
    ELSE IF Edges[n].code = "STAY" THEN Append(StayIndices(n - 1), n)
         ELSE StayIndices(n - 1)

\* The records process_hotels holds or has written, and the edges it has passed.
EmittedHotels == IF pc = "done" THEN hotels.rows ELSE [i \in 1..Len(acc) |-> HotelRowToCsv(acc[i])]
EdgesPassed == IF pc = "done" THEN Len(Edges) ELSE idx - 1
InHotelStage == pc = "loop" \/ (pc = "done" /\ marriottData.kind = "json")

\* Nights as the claim gives it.
ClaimedNights(node) ==
    LET s == to_datetime(node.startDate)
        e == to_datetime(node.endDate)
        valid == ~s.raised /\ ~s.nat /\ ~e.raised /\ ~e.nat
    IN  IF valid /\ e.day > s.day THEN e.day - s.day ELSE 1

\* C5: every hotel record of the batch import has Nights >= 1: the whole-day
\* difference endDate - startDate when that is positive, and 1 when endDate
\* precedes or equals startDate or a date is missing or unparsable; never zero,
\* negative or undefined.
C5_NightsAtLeastOne ==
    InHotelStage =>
        \A k \in 1..Len(EmittedHotels) :
            /\ ~EmittedHotels[k].Nights.nan
            /\ EmittedHotels[k].Nights.n >= 1
            /\ k <= Len(StayIndices(EdgesPassed)) =>
                   EmittedHotels[k].Nights.n = ClaimedNights(Edges[StayIndices(EdgesPassed)[k]])

Printed(text) == \E i \in 1..Len(stdout) : stdout[i].text = text

\* C7: the batch run always completes; a stage whose input file is missing or
\* unparseable reports it and leaves its output file as it was, and the other
\* stage still runs to its end and reports the number of records it wrote.
C7_StagesFailAlone ==
    /\ pc # "crashed"
    /\ pc = "done" =>
          /\ flightData.kind # "json" => flights = OldFlightsFile
          /\ marriottData.kind # "json" => hotels = OldHotelsFile
          /\ flightData.kind = "missing" => Printed("Error: flightData.txt not found.")
          /\ marriottData.kind = "missing" => Printed("Error: marriottData.txt not found.")
          /\ flightData.kind = "json" => Printed("Success: Saved flights")
          /\ marriottData.kind = "json" => Printed("Success: Saved hotel stays")

\* C8: the batch hotel import emits exactly one record per STAY node, in input
\* order, whatever the geocoder does: a node whose lookup raises or finds
\* nothing still gets its record, with City 'Unknown' and Lat = Lon = 0.0, and
\* the loop goes on to the next node and to the write (once process_hotels has
\* parsed its input, nothing ends it early).
C8_OneRecordPerStay ==
    /\ (pc = "crashed" /\ marriottData.kind = "json") => ~Printed("--- Processing Hotels ---")
    /\ InHotelStage =>
          LET stays == StayIndices(EdgesPassed)
          IN  /\ Len(EmittedHotels) = Len(stays)
              /\ \A k \in 1..Len(stays) :
                     /\ EmittedHotels[k].Name = to_csv_cell(node_name(Edges[stays[k]]))
                     /\ EmittedHotels[k].Date = to_csv_cell(Edges[stays[k]].startDate)
                     /\ ~IsMatch(geoPlan[stays[k]]) =>
                            /\ EmittedHotels[k].City = "Unknown"
                            /\ EmittedHotels[k].Lat = 0
                            /\ EmittedHotels[k].Lon = 0

\* The run is over, with two stays written: the geocoder raised for the first
\* and found nothing for the second.
C8_Witness ==
    /\ pc = "done"
    /\ Len(hotels.rows) = 2
    /\ geoPlan = <<"raise", "none">>
    /\ hotels.rows[1].City = "Unknown"
    /\ hotels.rows[2].Lat = 0

\* C9: geocoder calls are sequential and at least the one-second sleep lies
\* between any two consecutive calls, whether the earlier one found a match,
\* found nothing or raised.
C9_SleepBetweenGeocoderCalls ==
    \A i \in 1..(Len(geoTimes) - 1) : geoTimes[i + 1] - geoTimes[i] >= SLEEP_SECONDS

=============================================================================
